---- MODULE Spec2Model ----
(***************************************************************************)
(* Model of app/routes/search/index.tsx: the `action` of the search route. *)
(* One request = one run of `action`: read the form, check the three       *)
(* environment variables, post the prompt to the completion endpoint,      *)
(* JSON.parse the first choice's text, check Array.isArray, map one        *)
(* axios.get per element under Promise.all, flatten, answer.               *)
(*                                                                         *)
(* Every action below is one synchronous run of the handler between two    *)
(* suspension points (the awaits of lines 37, 50 and 74/76): Node runs a   *)
(* callback and the promise reactions it triggers to completion before     *)
(* the next network event is delivered.                                    *)
(***************************************************************************)
EXTENDS Integers, Sequences, FiniteSets, TLC

\* ------------------------------------------------------------------ bounds

\* Longest array of phrases the completion service is let to answer with.
MaxTerms == 3

\* Requests the server may be handling.
Reqs == {1, 2}

\* Requests that are actually submitted under Spec.
Solo == {1}

\* ------------------------------------------------------------- JSON values

\* A JSON value: t is its type, s the characters of a string or a number,
\* a the elements of an array (or key, value, key, value, ... of an object).
JStr(s) == [t |-> "str", s |-> s, a |-> <<>>]
JNum(s) == [t |-> "num", s |-> s, a |-> <<>>]
JNull == [t |-> "null", s |-> <<>>, a |-> <<>>]
JTrue == [t |-> "true", s |-> <<>>, a |-> <<>>]
JFalse == [t |-> "false", s |-> <<>>, a |-> <<>>]
JArr(a) == [t |-> "arr", s |-> <<>>, a |-> a]
JObj(a) == [t |-> "obj", s |-> <<>>, a |-> a]

\* A text is a sequence of UTF-16 code units, one element each. A code unit
\* of printable ASCII is the one-character string of it; tab, line feed, form
\* feed and carriage return are "\t", "\n", "\f" and "\r"; any other code
\* unit, and the grave accent, which no string of this notation can hold, is
\* the element "\uXXXX" of its four hexadecimal digits in lower case.
Quote == "\""
WhiteSpace == {" ", "\n", "\t", "\r"}
Digits == {"0", "1", "2", "3", "4", "5", "6", "7", "8", "9"}
DigitChars == <<"0", "1", "2", "3", "4", "5", "6", "7", "8", "9">>
HexLower == DigitChars \o <<"a", "b", "c", "d", "e", "f">>
HexUpper == DigitChars \o <<"A", "B", "C", "D", "E", "F">>
Ascii ==
    <<" ", "!", "\"", "#", "$", "%", "&", "'", "(", ")", "*", "+", ",", "-", ".", "/",
      "0", "1", "2", "3", "4", "5", "6", "7", "8", "9", ":", ";", "<", "=", ">", "?",
      "@", "A", "B", "C", "D", "E", "F", "G", "H", "I", "J", "K", "L", "M", "N", "O",
      "P", "Q", "R", "S", "T", "U", "V", "W", "X", "Y", "Z", "[", "\\", "]", "^", "_",
      "\\u0060", "a", "b", "c", "d", "e", "f", "g", "h", "i", "j", "k", "l", "m", "n", "o",
      "p", "q", "r", "s", "t", "u", "v", "w", "x", "y", "z", "{", "|", "}", "~">>

DigitVal(c) == (CHOOSE i \in 1..10 : DigitChars[i] = c) - 1
IsHex(c) == \E i \in 1..16 : c = HexLower[i] \/ c = HexUpper[i]
HexVal(c) == (CHOOSE i \in 1..16 : c = HexLower[i] \/ c = HexUpper[i]) - 1

\* The element that stands for the code unit with hexadecimal digits a b c d.
CodeUnit(a, b, c, d) ==
    LET v == 4096 * a + 256 * b + 16 * c + d
    IN  IF v = 9 THEN "\t"
        ELSE IF v = 10 THEN "\n"
        ELSE IF v = 12 THEN "\f"
        ELSE IF v = 13 THEN "\r"
        ELSE IF v \in 32..126 THEN Ascii[v - 31]
        ELSE "\\u" \o HexLower[a + 1] \o HexLower[b + 1] \o HexLower[c + 1] \o HexLower[d + 1]

\* The code units below U+0020, which no string may hold unescaped.
ControlChars == {CodeUnit(0, 0, c, d) : c \in 0..1, d \in 0..15}

\* The text of a value, as the prompt asks the service to write it:
\* ["termo 1", "termo 2", "termo 3"], here without the optional blanks.
\* A character of a string as it is written between the quotes.
Written(c) ==
    IF c = Quote THEN <<"\\", Quote>>
    ELSE IF c = "\\" THEN <<"\\", "\\">>
    ELSE IF c = "\n" THEN <<"\\", "n">>
    ELSE IF c = "\t" THEN <<"\\", "t">>
    ELSE IF c = "\r" THEN <<"\\", "r">>
    ELSE IF c = "\f" THEN <<"\\", "f">>
    ELSE IF c = CodeUnit(0, 0, 0, 8) THEN <<"\\", "b">>
    ELSE IF c \in ControlChars
    THEN LET h == CHOOSE p \in (0..1) \X (0..15) : c = CodeUnit(0, 0, p[1], p[2])
         IN  <<"\\", "u", "0", "0", HexLower[h[1] + 1], HexLower[h[2] + 1]>>
    ELSE <<c>>

RECURSIVE StringifyChars(_)
StringifyChars(s) ==
    IF s = <<>> THEN <<>> ELSE Written(Head(s)) \o StringifyChars(Tail(s))

RECURSIVE Stringify(_)
RECURSIVE StringifyElements(_)
RECURSIVE StringifyMembers(_)
StringifyElements(a) ==
    IF a = <<>> THEN <<>>
    ELSE IF Len(a) = 1 THEN Stringify(a[1])
    ELSE Stringify(a[1]) \o <<",">> \o StringifyElements(Tail(a))

StringifyMembers(a) ==
    IF a = <<>> THEN <<>>
    ELSE IF Len(a) = 2 THEN Stringify(a[1]) \o <<":">> \o Stringify(a[2])
    ELSE Stringify(a[1]) \o <<":">> \o Stringify(a[2]) \o <<",">>
         \o StringifyMembers(Tail(Tail(a)))

Stringify(v) ==
    CASE v.t = "str" -> <<Quote>> \o StringifyChars(v.s) \o <<Quote>>
      [] v.t = "num" -> v.s
      [] v.t = "null" -> <<"n", "u", "l", "l">>
      [] v.t = "true" -> <<"t", "r", "u", "e">>
      [] v.t = "false" -> <<"f", "a", "l", "s", "e">>
      [] v.t = "arr" -> <<"[">> \o StringifyElements(v.a) \o <<"]">>
      [] v.t = "obj" -> <<"{">> \o StringifyMembers(v.a) \o <<"}">>

\* ---------------------------------------------------- decimal arithmetic
\* Natural numbers of any size, as sequences of digits 0..9 with the most
\* significant first; <<>> is zero.

AllZero(d) == \A i \in 1..Len(d) : d[i] = 0

Zeros(n) == [i \in 1..n |-> 0]

StripLeading(d) ==
    IF AllZero(d) THEN <<>>
    ELSE SubSeq(d, CHOOSE i \in 1..Len(d) : d[i] # 0 /\ \A j \in 1..(i - 1) : d[j] = 0,
                Len(d))

StripTrailing(d) ==
    IF AllZero(d) THEN <<>>
    ELSE SubSeq(d, 1,
                CHOOSE i \in 1..Len(d) : d[i] # 0 /\ \A j \in (i + 1)..Len(d) : d[j] = 0)

\* The sequence f with its elements worked out.
AsSeq(f) == SubSeq(f, 1, Len(f))

\* floor(d / 2), with the digits of d kept in place.
Half(d) ==
    AsSeq([i \in 1..Len(d) |->
              (d[i] + (IF i > 1 /\ d[i - 1] % 2 = 1 THEN 10 ELSE 0)) \div 2])

\* 2 * d without its carry out of the first digit.
Twice(d) ==
    AsSeq([i \in 1..Len(d) |->
              (2 * d[i] + (IF i < Len(d) /\ d[i + 1] >= 5 THEN 1 ELSE 0)) % 10])

\* 2 * d
TwiceInt(d) == IF d # <<>> /\ d[1] >= 5 THEN <<1>> \o Twice(d) ELSE Twice(d)

\* The loops below run a step n times by halves, n = n/2 + (n - n/2), and
\* look at the outcome of the first half before they start the second.

\* A step of the conversion to binary: the last bit of d goes before bits.
IntBitsStep(st) == [d |-> Half(st.d), bits |-> <<st.d[Len(st.d)] % 2>> \o st.bits]

RECURSIVE IntBitsSteps(_, _)
IntBitsSteps(st, n) ==
    IF n = 0 THEN st
    ELSE IF n = 1 THEN IntBitsStep(st)
    ELSE LET half == IntBitsSteps(st, n \div 2)
         IN  IF AllZero(half.d) THEN half ELSE IntBitsSteps(half, n - n \div 2)

\* The binary digits of the natural number d, most significant first: d has
\* fewer than 10 * Len(d) / 3 + 1 of them.
IntBits(d) ==
    IF d = <<>> THEN <<>>
    ELSE StripLeading(IntBitsSteps([d |-> d, bits |-> <<>>], (10 * Len(d)) \div 3 + 1).bits)

\* A step of the conversion of a fraction 0.f: its next binary digit.
FracBitsStep(st) ==
    IF AllZero(st.f) THEN st
    ELSE [f |-> Twice(st.f), bits |-> Append(st.bits, IF st.f[1] >= 5 THEN 1 ELSE 0)]

RECURSIVE FracBitsSteps(_, _)
FracBitsSteps(st, n) ==
    IF n = 0 THEN st
    ELSE IF n = 1 THEN FracBitsStep(st)
    ELSE LET half == FracBitsSteps(st, n \div 2)
         IN  IF AllZero(half.f) THEN half ELSE FracBitsSteps(half, n - n \div 2)

\* The first n binary digits of the fraction 0.f (f its decimal digits), fewer
\* when the fraction is exhausted before; sticky says that something is left.
FracBits(f, n) ==
    LET st == FracBitsSteps([f |-> f, bits |-> <<>>], n)
    IN  [bits |-> st.bits, sticky |-> ~AllZero(st.f)]

\* bits + 1, in binary.
Increment(bits) ==
    IF \A i \in 1..Len(bits) : bits[i] = 1 THEN <<1>> \o Zeros(Len(bits))
    ELSE LET z == CHOOSE i \in 1..Len(bits) :
                      bits[i] = 0 /\ \A j \in (i + 1)..Len(bits) : bits[j] = 1
         IN  [i \in 1..Len(bits) |-> IF i < z THEN bits[i] ELSE IF i = z THEN 1 ELSE 0]

\* 2 * d + b, for a binary digit b.
TwicePlus(d, b) ==
    LET t == TwiceInt(d)
    IN  IF b = 0 THEN t ELSE IF t = <<>> THEN <<1>> ELSE [t EXCEPT ![Len(t)] = @ + 1]

\* A step of the conversion from binary: d takes the first of bits.
BitsToDecStep(st) ==
    IF st.bits = <<>> THEN st
    ELSE [d |-> TwicePlus(st.d, Head(st.bits)), bits |-> Tail(st.bits)]

RECURSIVE BitsToDecSteps(_, _)
BitsToDecSteps(st, n) ==
    IF n = 0 THEN st
    ELSE IF n = 1 THEN BitsToDecStep(st)
    ELSE LET half == BitsToDecSteps(st, n \div 2)
         IN  IF half.bits = <<>> THEN half ELSE BitsToDecSteps(half, n - n \div 2)

\* The natural number with binary digits bits.
BitsToDec(bits) == BitsToDecSteps([d |-> <<>>, bits |-> bits], Len(bits)).d

\* d * 2^n
RECURSIVE ShiftLeft(_, _)
ShiftLeft(d, n) ==
    IF n = 0 THEN d
    ELSE IF n = 1 THEN TwiceInt(d)
    ELSE LET half == ShiftLeft(d, n \div 2)
         IN  IF half = <<>> THEN <<>> ELSE ShiftLeft(half, n - n \div 2)

\* d / 2^n exactly, as a digit string with n more digits, all after the point.
RECURSIVE ShiftRight(_, _)
ShiftRight(d, n) ==
    IF n = 0 THEN d
    ELSE IF n = 1 THEN Half(Append(d, 0))
    ELSE LET half == ShiftRight(d, n \div 2)
         IN  IF AllZero(half) THEN half \o Zeros(n - n \div 2)
             ELSE ShiftRight(half, n - n \div 2)

DigitsToChars(d) == AsSeq([i \in 1..Len(d) |-> DigitChars[d[i] + 1]])
CharsToDigits(s) == AsSeq([i \in 1..Len(s) |-> DigitVal(s[i])])

\* ------------------------------------------------------------- the doubles
\* A Number is an IEEE 754 double. Its value here is the characters of its
\* exact decimal expansion (7, -0, 1000, 1.5, 0.1000000000000000055511151...),
\* or Infinity.

MinSub == 1074

MaxExp == 1023

Mantissa == 53

Neg(neg, s) == IF neg THEN <<"-">> \o s ELSE s

\* The decimal digits r of a number, the last n of them after the point, as
\* the characters of the number.
Pointed(r, n) ==
    (IF AllZero(SubSeq(r, 1, Len(r) - n)) THEN <<"0">>
     ELSE DigitsToChars(StripLeading(SubSeq(r, 1, Len(r) - n))))
    \o (IF AllZero(SubSeq(r, Len(r) - n + 1, Len(r))) THEN <<>>
        ELSE <<".">> \o DigitsToChars(StripTrailing(SubSeq(r, Len(r) - n + 1, Len(r)))))

\* The double k * 2^x, k given by its binary digits.
Exact(k, x) ==
    IF x >= 0 THEN DigitsToChars(ShiftLeft(BitsToDec(k), x))
    ELSE Pointed(ShiftRight(BitsToDec(k), -x), -x)

\* The digits of 0.d * 10^mag before the point, and those after it.
IntPart(d, mag) ==
    IF mag <= 0 THEN <<>>
    ELSE IF mag >= Len(d) THEN d \o Zeros(mag - Len(d))
    ELSE SubSeq(d, 1, mag)

FracPart(d, mag) ==
    IF mag <= 0 THEN Zeros(-mag) \o d
    ELSE IF mag >= Len(d) THEN <<>>
    ELSE SubSeq(d, mag + 1, Len(d))

\* The binary digits after the point that can take part in the rounding of a
\* number with nI binary digits before it.
FracWanted(nI) ==
    IF nI = 0 THEN MinSub + 1
    ELSE IF nI > Mantissa THEN 0
    ELSE Mantissa + 1 - nI

\* The index of the first 1 of stream, which holds one.
FirstOne(stream) ==
    CHOOSE j \in 1..Len(stream) : stream[j] = 1 /\ \A k \in 1..(j - 1) : stream[k] = 0

\* The index of the last binary digit a double keeps of stream, whose first
\* nI digits are before the point and whose first 1 is at p1: the mantissa
\* has Mantissa digits, and none is worth less than 2^-MinSub.
LastKept(stream, nI, p1) ==
    IF p1 + Mantissa - 1 <= nI + MinSub /\ p1 + Mantissa - 1 <= Len(stream)
    THEN p1 + Mantissa - 1
    ELSE IF nI + MinSub <= Len(stream) THEN nI + MinSub
    ELSE Len(stream)

\* The digits after index q are half or more of the last place kept, and
\* more than half or next to an odd mantissa: round to nearest, ties to even.
RoundsUp(stream, p1, q, sticky) ==
    /\ q + 1 <= Len(stream)
    /\ stream[q + 1] = 1
    /\ \/ sticky
       \/ \E j \in (q + 2)..Len(stream) : stream[j] = 1
       \/ q >= p1 /\ stream[q] = 1

\* The number of 0 digits that end k.
TrailingZeros(k) ==
    IF AllZero(k) THEN 0
    ELSE Len(k) - (CHOOSE i \in 1..Len(k) : k[i] = 1 /\ \A j \in (i + 1)..Len(k) : k[j] = 0)

\* The double k * 2^x, for a mantissa k of at most Mantissa digits.
Finite(k, x) ==
    IF k = <<>> THEN <<"0">>
    ELSE IF x + Len(k) - 1 > MaxExp THEN <<"Infinity">>
    ELSE Exact(SubSeq(k, 1, Len(k) - TrailingZeros(k)), x + TrailingZeros(k))

RoundTo(stream, nI, sticky, p1, q) ==
    Finite(IF RoundsUp(stream, p1, q, sticky) THEN AsSeq(Increment(SubSeq(stream, p1, q)))
           ELSE SubSeq(stream, p1, q),
           nI - q)

\* The double nearest to the number with binary digits stream, the first nI
\* of them before the point; sticky says that more digits, not all 0, follow.
Rounded(stream, nI, sticky) ==
    IF AllZero(stream) THEN <<"0">>
    ELSE RoundTo(stream, nI, sticky, FirstOne(stream),
                 LastKept(stream, nI, FirstOne(stream)))

\* The double nearest to the number with binary digits ib before the point
\* and, read as far as they can matter, fb after it.
NearestOf(ib, fb) == Rounded(AsSeq(ib \o fb.bits), Len(ib), fb.sticky)

NearestFrom(ib, frac) == NearestOf(ib, FracBits(frac, FracWanted(Len(ib))))

\* The double nearest to 0.d * 10^mag, ties to the even mantissa: d is a
\* digit string that starts with a digit other than 0.
Nearest(d, mag) == NearestFrom(IntBits(IntPart(d, mag)), FracPart(d, mag))

\* The natural number with digits d, for a d short enough.
RECURSIVE DigitsToInt(_)
DigitsToInt(d) ==
    IF d = <<>> THEN 0 ELSE 10 * DigitsToInt(SubSeq(d, 1, Len(d) - 1)) + d[Len(d)]

\* 0.d * 10^mag is Infinity from mag = MaxDecimal on (it is 10^309 or more)
\* and 0 down from mag = MinDecimal (it is below 10^-324, less than half the
\* least double).
MaxDecimal == 310

MinDecimal == -324

\* The mag of 0.d * 10^mag for a numeral whose first digit other than 0 is
\* `lead` places before the point (after it when negative) and whose exponent
\* is written with the digit characters e, negative when eneg: lead plus the
\* exponent, read in full. The sum is taken on the tens, lead = 10 * t + u
\* and the exponent 10 * q + r, so that no step leaves the 32-bit integers;
\* MaxDecimal stands for every sum from MaxDecimal on and MinDecimal for
\* every sum down from MinDecimal, the number being Infinity or 0 for all of
\* them. An exponent of more than ten digits is 10^10 or more, beyond what
\* the digits of a text can make up for: a text has fewer than 2^31
\* characters.
Scale(lead, eneg, e) ==
    LET d == StripLeading(CharsToDigits(e))
        n == Len(d)
        q == IF n <= 1 THEN 0 ELSE DigitsToInt(SubSeq(d, 1, n - 1))
        r == IF n = 0 THEN 0 ELSE d[n]
        w == (lead \div 10) + (IF eneg THEN -q ELSE q)
        v == (lead % 10) + (IF eneg THEN -r ELSE r)
    IN  IF n > 10 THEN (IF eneg THEN MinDecimal ELSE MaxDecimal)
        ELSE IF w >= (MaxDecimal \div 10) + 1 THEN MaxDecimal
        ELSE IF w <= (MinDecimal \div 10) - 2 THEN MinDecimal
        ELSE 10 * w + v

\* The double nearest to the number with digits all, the point after the
\* first nInt of them, times ten to the exponent e: 0.d * 10^mag, d
\* starting with a digit other than 0.
Magnitude(all, nInt, eneg, e) ==
    LET d == StripLeading(all)
        mag == Scale(nInt - (Len(all) - Len(d)), eneg, e)
    IN  IF d = <<>> THEN <<"0">>
        ELSE IF mag >= MaxDecimal THEN <<"Infinity">>
        ELSE IF mag <= MinDecimal THEN <<"0">>
        ELSE Nearest(StripTrailing(d), mag)

\* The Number a numeral denotes: int and frac are the digit characters
\* before and after the point, e those of the exponent.
ToNumber(neg, int, frac, eneg, e) ==
    Neg(neg, Magnitude(CharsToDigits(int \o frac), Len(int), eneg, e))

\* ------------------------------------------------------------- JSON.parse

ParseOk(v, i) == [ok |-> TRUE, val |-> v, next |-> i]
ParseFail(i) == [ok |-> FALSE, val |-> JNull, next |-> i]

\* The first index from i on whose character is not in set, Len(s) + 1 when
\* the text ends first.
SkipAll(s, i, set) ==
    IF i > Len(s) THEN i
    ELSE CHOOSE k \in i..(Len(s) + 1) :
            /\ k = Len(s) + 1 \/ s[k] \notin set
            /\ \A m \in i..(k - 1) : s[m] \in set

SkipWs(s, i) == SkipAll(s, i, WhiteSpace)

\* What may follow a backslash, besides u and four hexadecimal digits.
SimpleEscapes == {Quote, "\\", "/", "b", "f", "n", "r", "t"}

\* The number of backslashes in a row that end just before index m, counted
\* from index j on.
Backslashes(s, j, m) ==
    m - (CHOOSE p \in j..m :
            /\ \A x \in p..(m - 1) : s[x] = "\\"
            /\ p = j \/ s[p - 1] # "\\")

\* Index m, in a string that starts at j, holds the backslash of an escape:
\* one that no backslash before it escapes.
IsEscape(s, j, m) == s[m] = "\\" /\ Backslashes(s, j, m) % 2 = 0

\* Index k holds a quote that no backslash escapes.
IsClosing(s, j, k) == s[k] = Quote /\ Backslashes(s, j, k) % 2 = 0

\* The backslash at m starts an escape that is whole before index k.
ValidEscape(s, m, k) ==
    \/ s[m + 1] \in SimpleEscapes
    \/ s[m + 1] = "u" /\ m + 5 < k /\ \A x \in 2..5 : IsHex(s[m + x])

\* The index of the quote closing a string whose first character is at j,
\* 0 when the text ends first, holds a control character unescaped, or a
\* backslash that starts no escape.
ScanString(s, j) ==
    LET ends == {k \in j..Len(s) : IsClosing(s, j, k) /\ \A o \in j..(k - 1) : ~IsClosing(s, j, o)}
        k == CHOOSE e \in ends : TRUE
    IN  IF ends = {} THEN 0
        ELSE IF \E m \in j..(k - 1) :
                    \/ s[m] \in ControlChars
                    \/ IsEscape(s, j, m) /\ ~ValidEscape(s, m, k)
        THEN 0
        ELSE k

\* The character an escape \c stands for.
Escaped(c) ==
    CASE c = "b" -> CodeUnit(0, 0, 0, 8)
      [] c = "f" -> "\f"
      [] c = "n" -> "\n"
      [] c = "r" -> "\r"
      [] c = "t" -> "\t"
      [] OTHER -> c

\* Index m is inside an escape, after its backslash.
InEscape(s, j, m) ==
    \E p \in j..(m - 1) :
        /\ m - p <= 5
        /\ IsEscape(s, j, p)
        /\ m = p + 1 \/ s[p + 1] = "u"

IsKept(x) == x.keep

\* The characters of a string written as s[j..e-1], its escapes read.
Unescape(s, j, e) ==
    LET at == [m \in 1..(e - j) |->
                 LET i == j + m - 1
                 IN  [keep |-> ~InEscape(s, j, i),
                      ch |-> IF s[i] # "\\" \/ InEscape(s, j, i) THEN s[i]
                             ELSE IF s[i + 1] = "u"
                             THEN CodeUnit(HexVal(s[i + 2]), HexVal(s[i + 3]),
                                           HexVal(s[i + 4]), HexVal(s[i + 5]))
                             ELSE Escaped(s[i + 1])]]
        kept == SelectSeq(AsSeq(at), IsKept)
    IN  [m \in 1..Len(kept) |-> kept[m].ch]

ScanDigits(s, j) == SkipAll(s, j, Digits)

ParseString(s, i) ==
    LET j == ScanString(s, i + 1)
    IN  IF j = 0 THEN ParseFail(i) ELSE ParseOk(JStr(Unescape(s, i + 1, j)), j + 1)

\* A number: an optional minus; 0, or a digit from 1 to 9 followed by digits
\* (no leading zero); an optional point with digits; an optional e or E, an
\* optional sign and digits. The numeral's parts are s[a..b-1] before the
\* point, s[b+1..c-1] after it when hasFrac, and s[d..f-1] in the exponent,
\* which is negative when eneg.
NumberEnd(s, neg, a, b, hasFrac, c, eneg, d, f) ==
    ParseOk(JNum(ToNumber(neg, SubSeq(s, a, b - 1),
                          IF hasFrac THEN SubSeq(s, b + 1, c - 1) ELSE <<>>,
                          eneg, SubSeq(s, d, f - 1))), f)

NumberExp(s, neg, a, b, hasFrac, c, d) ==
    LET f == ScanDigits(s, d)
    IN  IF f = d THEN ParseFail(f)
        ELSE NumberEnd(s, neg, a, b, hasFrac, c, d = c + 2 /\ s[c + 1] = "-", d, f)

NumberFrac(s, neg, a, b, hasFrac, c) ==
    IF hasFrac /\ c = b + 1 THEN ParseFail(c)
    ELSE IF c <= Len(s) /\ s[c] \in {"e", "E"}
    THEN NumberExp(s, neg, a, b, hasFrac, c,
                   IF c + 1 <= Len(s) /\ s[c + 1] \in {"+", "-"} THEN c + 2 ELSE c + 1)
    ELSE NumberEnd(s, neg, a, b, hasFrac, c, FALSE, c, c)

NumberInt(s, neg, a, b) ==
    IF b <= Len(s) /\ s[b] = "." THEN NumberFrac(s, neg, a, b, TRUE, ScanDigits(s, b + 1))
    ELSE NumberFrac(s, neg, a, b, FALSE, b)

NumberFrom(s, neg, a) ==
    IF ~(a <= Len(s) /\ s[a] \in Digits) THEN ParseFail(a)
    ELSE NumberInt(s, neg, a, IF s[a] = "0" THEN a + 1 ELSE ScanDigits(s, a))

ParseNumber(s, i) == NumberFrom(s, s[i] = "-", IF s[i] = "-" THEN i + 1 ELSE i)

ParseLiteral(s, i, word, v) ==
    IF i + Len(word) - 1 <= Len(s) /\ SubSeq(s, i, i + Len(word) - 1) = word
    THEN ParseOk(v, i + Len(word))
    ELSE ParseFail(i)

\* ----------------------------------------------------------------- objects
\* The members of an object are <<key, value, key, value, ...>> in the order
\* its properties are listed in: the keys that are array indices first, in
\* ascending order, then the others in the order they were first written.

MaxIndex == <<"4", "2", "9", "4", "9", "6", "7", "2", "9", "4">>

\* a < b, for two numerals without leading zeros.
LessNumeral(a, b) ==
    \/ Len(a) < Len(b)
    \/ /\ Len(a) = Len(b)
       /\ \E i \in 1..Len(a) :
            /\ DigitVal(a[i]) < DigitVal(b[i])
            /\ \A j \in 1..(i - 1) : a[j] = b[j]

\* The key is the canonical numeral of an integer from 0 to 2^32 - 2.
IsIndexKey(k) ==
    /\ k # <<>>
    /\ \A i \in 1..Len(k) : k[i] \in Digits
    /\ Len(k) = 1 \/ k[1] # "0"
    /\ ~LessNumeral(MaxIndex, k)

\* obj[key] = val: a key written before keeps its place and takes the value.
PutMember(acc, key, val) ==
    IF \E p \in 1..(Len(acc) \div 2) : acc[2 * p - 1] = key
    THEN [i \in 1..Len(acc) |-> IF i % 2 = 0 /\ acc[i - 1] = key THEN val ELSE acc[i]]
    ELSE Append(Append(acc, key), val)

\* The members acc, of distinct keys, in property order.
InKeyOrder(acc) ==
    LET n == Len(acc) \div 2
        idx == {p \in 1..n : IsIndexKey(acc[2 * p - 1].s)}
        before(p) ==
            IF p \in idx
            THEN Cardinality({o \in idx : LessNumeral(acc[2 * o - 1].s, acc[2 * p - 1].s)})
            ELSE Cardinality(idx) + Cardinality({o \in (1..n) \ idx : o < p})
        at(r) == CHOOSE p \in 1..n : before(p) = r - 1
    IN  [i \in 1..(2 * n) |-> IF i % 2 = 1 THEN acc[2 * at((i + 1) \div 2) - 1]
                              ELSE acc[2 * at(i \div 2)]]

RECURSIVE ParseValue(_, _)
RECURSIVE ParseElements(_, _, _)
RECURSIVE ParseMembers(_, _, _)

\* After the element r, at the next index j that holds no white space.
ElementsAfter(s, i, acc, r, j) ==
    IF ~r.ok \/ j > Len(s) THEN ParseFail(i)
    ELSE IF s[j] = "," THEN ParseElements(s, j + 1, Append(acc, r.val))
    ELSE IF s[j] = "]" THEN ParseOk(JArr(Append(acc, r.val)), j + 1)
    ELSE ParseFail(j)

ElementsWith(s, i, acc, r) == ElementsAfter(s, i, acc, r, SkipWs(s, r.next))

\* value (, value)* ] : the elements of an array, after its [.
ParseElements(s, i, acc) == ElementsWith(s, i, acc, ParseValue(s, i))

\* After the member key : r, at the next index j that holds no white space.
MembersAfter(s, i, acc, key, r, j) ==
    IF ~r.ok \/ j > Len(s) THEN ParseFail(i)
    ELSE IF s[j] = ","
         THEN ParseMembers(s, j + 1, PutMember(acc, key.val, r.val))
    ELSE IF s[j] = "}"
         THEN ParseOk(JObj(InKeyOrder(PutMember(acc, key.val, r.val))), j + 1)
    ELSE ParseFail(j)

MembersValue(s, i, acc, key, r) == MembersAfter(s, i, acc, key, r, SkipWs(s, r.next))

\* After the key, at the next index c that holds no white space.
MembersColon(s, i, acc, key, c) ==
    MembersValue(s, i, acc, key,
                 IF key.ok /\ c <= Len(s) /\ s[c] = ":" THEN ParseValue(s, c + 1)
                 ELSE ParseFail(c))

MembersKey(s, i, acc, key) == MembersColon(s, i, acc, key, SkipWs(s, key.next))

MembersAt(s, i, acc, k) ==
    MembersKey(s, i, acc,
               IF k <= Len(s) /\ s[k] = Quote THEN ParseString(s, k) ELSE ParseFail(k))

\* "key" : value (, "key" : value)* } : the members of an object, after its {.
ParseMembers(s, i, acc) == MembersAt(s, i, acc, SkipWs(s, i))

\* The value that starts at index i, which holds no white space.
ValueAt(s, i) ==
    IF i > Len(s) THEN ParseFail(i)
    ELSE CASE s[i] = Quote -> ParseString(s, i)
           [] s[i] \in Digits \cup {"-"} -> ParseNumber(s, i)
           [] s[i] = "n" -> ParseLiteral(s, i, <<"n", "u", "l", "l">>, JNull)
           [] s[i] = "t" -> ParseLiteral(s, i, <<"t", "r", "u", "e">>, JTrue)
           [] s[i] = "f" -> ParseLiteral(s, i, <<"f", "a", "l", "s", "e">>, JFalse)
           [] s[i] = "[" ->
                LET j == SkipWs(s, i + 1)
                IN  IF j <= Len(s) /\ s[j] = "]" THEN ParseOk(JArr(<<>>), j + 1)
                    ELSE ParseElements(s, i + 1, <<>>)
           [] s[i] = "{" ->
                LET j == SkipWs(s, i + 1)
                IN  IF j <= Len(s) /\ s[j] = "}" THEN ParseOk(JObj(<<>>), j + 1)
                    ELSE ParseMembers(s, i + 1, <<>>)
           [] OTHER -> ParseFail(i)

ParseValue(s, i0) == ValueAt(s, SkipWs(s, i0))

\* The outcome of JSON.parse when r is the parse of the first value of s and
\* only white space may follow it.
Whole(s, r) ==
    IF r.ok /\ SkipWs(s, r.next) > Len(s) THEN [ok |-> TRUE, val |-> r.val]
    ELSE [ok |-> FALSE, val |-> JNull]

\* The outcome when whatever follows the first value is not looked at.
Prefix(s, r) == IF r.ok THEN [ok |-> TRUE, val |-> r.val] ELSE [ok |-> FALSE, val |-> JNull]

\* A parse that stops at the end of the first value and does not look at what
\* follows it.
JSONParsePrefix(s) == Prefix(s, ParseValue(s, 1))

\* JSON.parse(text): [ok |-> FALSE] stands for the SyntaxError it throws.
\* The whole text must be one value, blanks allowed around it.
JSONParse(s) == Whole(s, ParseValue(s, 1))

\* typeof value === "object" in place of Array.isArray: objects (and null) pass.
IsObjectLike(v) == v.t \in {"arr", "obj", "null"}

\* Array.isArray(value)
IsArray(v) == v.t = "arr"

\* ------------------------------------------------------------------ inputs

\* The lesson texts a user may submit (the form's "query" field).
Queries == {"", "sistema solar"}

\* The body of a posted request, as request.formData() and then
\* formData.get("query") find it: a body that is no form or cannot be read; a
\* form without a form field; a form whose form field is an uploaded file;
\* a form whose form field is a text.
Unreadable == [kind |-> "unreadable", text |-> ""]
NoField == [kind |-> "absent", text |-> ""]
FileField == [kind |-> "file", text |-> ""]
TextField(t) == [kind |-> "text", text |-> t]

Forms == {Unreadable, NoField, FileField} \cup {TextField(q) : q \in Queries}

\* process.env: which of the three variables are set.
EnvNames == {"OPENAI_API_KEY", "CUSTOM_SEARCH_KEY", "CUSTOM_SEARCH_CX"}
Envs == [EnvNames -> BOOLEAN]

\* The phrases the completion service may write.
Phrases == {JStr(<<"a">>), JStr(<<"b">>)}

\* Arrays of phrases of every length up to MaxTerms.
PhraseArrays == UNION {[1..n -> Phrases] : n \in 0..MaxTerms}

\* Arrays the prompt did not ask for: an empty string, a number, a nested
\* array, a phrase with a quote and a line break in it, a negative number
\* and a fraction, four phrases.
OddArrays ==
    { <<JStr(<<"a">>), JStr(<<>>), JStr(<<"b">>)>>,
      <<JStr(<<"a">>), JNum(<<"7">>), JStr(<<"b">>)>>,
      <<JArr(<<JStr(<<"a">>)>>)>>,
      <<JStr(<<"a", Quote, "\n", "b">>)>>,
      <<JNum(<<"-", "1">>), JNum(<<"1", ".", "5">>)>>,
      <<JStr(<<"a">>), JStr(<<"b">>), JStr(<<"a">>), JStr(<<"b">>)>> }

ArrayValues ==
    {JArr(a) : a \in PhraseArrays \cup OddArrays}
    \cup {JArr(<<JNum(<<"1", "0", "0", "0">>)>>), JArr(<<JNum(<<"-", "5">>)>>),
          JArr(<<JStr(<<"a", "/">>)>>)}

\* JSON values that are no array: an object, a number, a string, the literals.
NonArrayValues ==
    { JObj(<<JStr(<<"a">>), JNum(<<"1">>)>>), JObj(<<>>), JNum(<<"7">>),
      JStr(<<"a">>), JNull, JTrue, JFalse }

\* A value written as the prompt's example is, with a blank after each comma
\* of the array and line breaks around it, or with a tab before it.
RECURSIVE SpacedElements(_)
SpacedElements(a) ==
    IF a = <<>> THEN <<>>
    ELSE IF Len(a) = 1 THEN Stringify(a[1])
    ELSE Stringify(a[1]) \o <<",", " ">> \o SpacedElements(Tail(a))

Spaced(v) ==
    IF v.t = "arr" THEN <<"\r", "\n", "[">> \o SpacedElements(v.a) \o <<"]", "\n">>
    ELSE <<"\t">> \o Stringify(v) \o <<" ">>

SpacedValues ==
    { JArr(<<JStr(<<"b">>), JStr(<<"a">>), JStr(<<"b">>)>>), JArr(<<>>), JNull }

\* Other ways to write a number and a string: an exponent, an escaped code
\* unit, an escaped solidus.
OtherSpellings ==
    { <<<<"[", "1", "e", "3", "]">>, JArr(<<JNum(<<"1", "0", "0", "0">>)>>)>>,
      <<<<"[", "-", "0", ".", "5", "E", "+", "1", "]">>, JArr(<<JNum(<<"-", "5">>)>>)>>,
      <<<<"[", Quote, "\\", "u", "0", "0", "6", "1", "\\", "/", Quote, "]">>,
        JArr(<<JStr(<<"a", "/">>)>>)>> }

\* The texts that are JSON, each with the value it denotes.
Denotes ==
    {<<Stringify(v), v>> : v \in ArrayValues \cup NonArrayValues}
    \cup {<<Spaced(v), v>> : v \in SpacedValues}
    \cup OtherSpellings

JsonTexts == {d[1] : d \in Denotes}

\* Texts that are not JSON: prose, nothing, a cut array, prose after the
\* array, single quotes, a trailing comma, a leading zero, a missing comma,
\* an unquoted key, a string left open, a cut literal, a tab unescaped in a
\* string, an escape that is none, a point without digits, a lone minus, a
\* plus sign, a form feed and a no-break space as blanks.
ThreeTerms == Stringify(JArr(<<JStr(<<"a">>), JStr(<<"b">>), JStr(<<"a">>)>>))

MalformedTexts ==
    { <<"n", "o", "t", " ", "j", "s", "o", "n">>,
      <<>>,
      SubSeq(ThreeTerms, 1, Len(ThreeTerms) - 1),
      ThreeTerms \o <<" ", "x">>,
      <<"[", "'", "a", "'", "]">>,
      <<"[", Quote, "a", Quote, ",", "]">>,
      <<"0", "7">>,
      <<"[", Quote, "a", Quote, " ", Quote, "b", Quote, "]">>,
      <<"{", "a", ":", "1", "}">>,
      <<"[", Quote, "a", "]">>,
      <<"n", "u", "l">>,
      <<"[", Quote, "a", "\t", "b", Quote, "]">>,
      <<"[", Quote, "\\", "x", Quote, "]">>,
      <<"[", "1", ".", "]">>,
      <<"[", "-", "]">>,
      <<"[", "+", "1", "]">>,
      <<"\f", "[", "]">>,
      <<CodeUnit(0, 0, 10, 0), "[", "]">> }

GptTexts == JsonTexts \cup MalformedTexts

\* The data of a completion response: no choices field at all, no choice, a
\* choice without text, a choice with a text, two choices.
Choice(t) == [hasText |-> TRUE, text |-> t]
NoTextChoice == [hasText |-> FALSE, text |-> <<>>]

GptData ==
    { [hasChoices |-> FALSE, choices |-> <<>>],
      [hasChoices |-> TRUE, choices |-> <<>>],
      [hasChoices |-> TRUE, choices |-> <<NoTextChoice>>],
      [hasChoices |-> TRUE, choices |-> <<Choice(Stringify(JArr(<<>>))), Choice(ThreeTerms)>>] }
    \cup {[hasChoices |-> TRUE, choices |-> <<Choice(t)>>] : t \in GptTexts}

\* The items of a search response; the service sends more fields than the
\* three the action keeps.
ItemA == [link |-> "https://a.example/1.png", displayLink |-> "a.example",
          title |-> "A", mime |-> "image/png"]
ItemB == [link |-> "https://b.example/2.jpg", displayLink |-> "b.example",
          title |-> "B", mime |-> "image/jpeg"]

\* The data of a search response: no items field (the service leaves it out
\* when nothing matches), no item, one item, two items.
SearchData ==
    { [hasItems |-> FALSE, items |-> <<>>],
      [hasItems |-> TRUE, items |-> <<>>],
      [hasItems |-> TRUE, items |-> <<ItemA>>],
      [hasItems |-> TRUE, items |-> <<ItemB, ItemA>>] }

\* ------------------------------------------------------------------- state

VARIABLES
    env,          \* process.env: variable name -> set or not
    pc,           \* request -> where its run of `action` stands
    form,         \* request -> the body posted
    posts,        \* request -> the completion calls made, in order
    gptReply,     \* request -> what the completion call came back with
    terms,        \* request -> gptResultAsArray
    searchCalls,  \* request -> the search calls made, in order
    replies,      \* request -> per search call, what it came back with
    values,       \* request -> the values array of Promise.all
    allState,     \* request -> the state of the Promise.all promise
    order,        \* request -> the search calls in the order they came back
    response      \* request -> what `action` returned or threw

vars == <<env, pc, form, posts, gptReply, terms, searchCalls, replies, values,
          allState, order, response>>

\* ------------------------------------------------------ the action's pieces

MaxTokens == 256

PromptHead == "... Texto da aula:"
PromptTail == "Resposta:"

\* `${query}`: what the template literal makes of formData.get("query"),
\* which is null for a missing field and a File for an uploaded one.
TemplateText(f) ==
    CASE f.kind = "absent" -> "null"
      [] f.kind = "file" -> "[object File]"
      [] OTHER -> f.text

\* buildPrompt(query): the instructions with the lesson text put in.
buildPrompt(f) == <<PromptHead, TemplateText(f), PromptTail>>

\* The body posted to the completion endpoint.
CompletionRequest(q) ==
    [url |-> "https://api.openai.com/v1/completions", model |-> "text-davinci-003",
     prompt |-> buildPrompt(q), max_tokens |-> MaxTokens]

\* The first of the three `invariant` calls that fails, "" when none does.
MissingEnv(e) ==
    IF ~e["OPENAI_API_KEY"] THEN "OPENAI_API_KEY must be set"
    ELSE IF ~e["CUSTOM_SEARCH_KEY"] THEN "CUSTOM_SEARCH_KEY must be set"
    ELSE IF ~e["CUSTOM_SEARCH_CX"] THEN "CUSTOM_SEARCH_CX must be set"
    ELSE ""

\* What `action` hands back. kind "json" is a returned json(...) response,
\* kind "throw" an exception leaving the handler; cause says which step threw
\* (src) and, for a search call, which one (idx).
NoCause == [src |-> "none", idx |-> 0]
NoResponse ==
    [kind |-> "none", status |-> 0, error |-> "", searchTerms |-> <<>>,
     results |-> <<>>, cause |-> NoCause]

\* json({ error: "Invalid response from GPT" }, { status: 400 })
InvalidResponse ==
    [kind |-> "json", status |-> 400, error |-> "Invalid response from GPT",
     searchTerms |-> <<>>, results |-> <<>>, cause |-> NoCause]

\* json({ searchTerms: gptResultAsArray, results })
Aggregated(ts, rs) ==
    [kind |-> "json", status |-> 200, error |-> "", searchTerms |-> ts,
     results |-> rs, cause |-> NoCause]

Thrown(msg, src, idx) ==
    [kind |-> "throw", status |-> 0, error |-> msg, searchTerms |-> <<>>,
     results |-> <<>>, cause |-> [src |-> src, idx |-> idx]]

\* gptResponse.data.choices[0]?.text: undefined when there is no first choice
\* or it has no text.
Undefined == [def |-> FALSE, text |-> <<>>]
gptResult(d) ==
    IF d.choices = <<>> \/ ~d.choices[1].hasText THEN Undefined
    ELSE [def |-> TRUE, text |-> d.choices[1].text]

\* gptResult ?? "[]": no text taken as an empty list.
ToTextDefault(x) == IF x.def THEN x.text ELSE <<"[", "]">>

\* JSON.parse turns its argument into a string first.
ToText(x) ==
    IF x.def THEN x.text ELSE <<"u", "n", "d", "e", "f", "i", "n", "e", "d">>

\* The check the prompt suggests, made: an array of another length than 3 is
\* answered as an invalid response.
GeneratedExactlyThree(d) ==
    IF ~d.hasChoices THEN [res |-> "TypeError", terms |-> <<>>]
    ELSE LET p == JSONParse(ToText(gptResult(d)))
         IN  IF ~p.ok THEN [res |-> "invalid", terms |-> <<>>]
             ELSE IF ~IsArray(p.val) \/ Len(p.val.a) # 3
                  THEN [res |-> "invalid", terms |-> <<>>]
             ELSE [res |-> "array", terms |-> p.val.a]

\* Lines 59 to 71: what the completion data yields. "TypeError" when the
\* data has no choices to index, "invalid" for the two status-400 returns,
\* "array" with gptResultAsArray otherwise.
Generated(d) ==
    IF ~d.hasChoices THEN [res |-> "TypeError", terms |-> <<>>]
    ELSE LET p == JSONParse(ToText(gptResult(d)))
         IN  IF ~p.ok THEN [res |-> "invalid", terms |-> <<>>]
             ELSE IF ~IsArray(p.val) THEN [res |-> "invalid", terms |-> <<>>]
             ELSE [res |-> "array", terms |-> p.val.a]

\* The params of the axios.get of one term.
SearchRequest(term) ==
    [url |-> "https://www.googleapis.com/customsearch/v1", q |-> term,
     searchType |-> "image"]

\* A loop that awaits each search before it sends the next: only the first
\* request is out when `action` first waits.
IssueFirstOnly(ts) == [i \in 1..(IF ts = <<>> THEN 0 ELSE 1) |-> SearchRequest(ts[i])]

\* gptResultAsArray.map(async (term) => ... axios.get ...): each callback runs
\* to its await, so every request is sent, in array order, before map returns.
IssueSearches(ts) == [i \in 1..Len(ts) |-> SearchRequest(ts[i])]

\* searchResponse.data.items.map((item) => ({ link, displayLink, title }))
MapItems(items) ==
    [i \in 1..Len(items) |->
        [link |-> items[i].link, displayLink |-> items[i].displayLink,
         title |-> items[i].title]]

Unset == [set |-> FALSE, v |-> <<>>]

\* A values array filled in order of arrival (results.push in each callback).
StoreArrival(vals, i, v) ==
    LET free == {k \in 1..Len(vals) : ~vals[k].set}
        k == CHOOSE m \in free : \A n \in free : m <= n
    IN  [vals EXCEPT ![k] = [set |-> TRUE, v |-> v]]

\* Promise.all: one slot per input promise, filled when that promise fulfils.
StoreValue(vals, i, v) == [vals EXCEPT ![i] = [set |-> TRUE, v |-> v]]

\* A join that is fulfilled by the arrival of a value only: over no promise
\* at all it stays pending.
AllFulfilledByArrival(vals) == vals # <<>> /\ \A i \in 1..Len(vals) : vals[i].set

\* Promise.all fulfils when no input promise is left to fulfil.
AllFulfilled(vals) == \A i \in 1..Len(vals) : vals[i].set

\* A flattening that keeps one record per link (results put in a map by link).
RECURSIVE KeepFirstByLink(_, _)
KeepFirstByLink(rs, seen) ==
    IF rs = <<>> THEN <<>>
    ELSE IF Head(rs).link \in seen THEN KeepFirstByLink(Tail(rs), seen)
    ELSE <<Head(rs)>> \o KeepFirstByLink(Tail(rs), seen \cup {Head(rs).link})

RECURSIVE FlatAll(_)
FlatAll(vals) == IF vals = <<>> THEN <<>> ELSE Head(vals).v \o FlatAll(Tail(vals))

FlatUnique(vals) == KeepFirstByLink(FlatAll(vals), {})

\* (...).flat(): the slots' lists joined in slot order.
RECURSIVE Flat(_)
Flat(vals) == IF vals = <<>> THEN <<>> ELSE Head(vals).v \o Flat(Tail(vals))

\* What a search call came back with.
NoReply == [kind |-> "none", hasItems |-> FALSE, items |-> <<>>]
ErrorReply == [kind |-> "error", hasItems |-> FALSE, items |-> <<>>]
DataReply(d) == [kind |-> "data", hasItems |-> d.hasItems, items |-> d.items]

NoGptReply == [kind |-> "none", hasChoices |-> FALSE, choices |-> <<>>]
GptErrorReply == [kind |-> "error", hasChoices |-> FALSE, choices |-> <<>>]
GptDataReply(d) == [kind |-> "data", hasChoices |-> d.hasChoices, choices |-> d.choices]

\* ----------------------------------------------------------------- actions

Init ==
    /\ env \in Envs
    /\ pc = [r \in Reqs |-> "idle"]
    /\ form = [r \in Reqs |-> NoField]
    /\ posts = [r \in Reqs |-> <<>>]
    /\ gptReply = [r \in Reqs |-> NoGptReply]
    /\ terms = [r \in Reqs |-> <<>>]
    /\ searchCalls = [r \in Reqs |-> <<>>]
    /\ replies = [r \in Reqs |-> <<>>]
    /\ values = [r \in Reqs |-> <<>>]
    /\ allState = [r \in Reqs |-> "none"]
    /\ order = [r \in Reqs |-> <<>>]
    /\ response = [r \in Reqs |-> NoResponse]

\* The form is posted: `action` starts and awaits request.formData() (line 37).
Submit(r, f) ==
    /\ pc[r] = "idle"
    /\ pc' = [pc EXCEPT ![r] = "formData"]
    /\ form' = [form EXCEPT ![r] = f]
    /\ UNCHANGED <<env, posts, gptReply, terms, searchCalls, replies, values,
                   allState, order, response>>

\* Lines 37 to 57: request.formData() settles, and rejects with a TypeError
\* for a body it cannot read; then the three invariants; then the completion
\* call is sent.
Begin(r) ==
    /\ pc[r] = "formData"
    /\ IF form[r].kind = "unreadable"
       THEN /\ response' = [response EXCEPT ![r] =
                    Thrown("Could not parse content as FormData.", "formData", 0)]
            /\ pc' = [pc EXCEPT ![r] = "done"]
            /\ posts' = posts
       ELSE IF MissingEnv(env) # ""
       THEN /\ response' = [response EXCEPT ![r] = Thrown(MissingEnv(env), "invariant", 0)]
            /\ pc' = [pc EXCEPT ![r] = "done"]
            /\ posts' = posts
       ELSE /\ posts' = [posts EXCEPT ![r] = Append(@, CompletionRequest(form[r]))]
            /\ pc' = [pc EXCEPT ![r] = "awaitGpt"]
            /\ response' = response
    /\ UNCHANGED <<env, form, gptReply, terms, searchCalls, replies, values,
                   allState, order>>

\* A completion failure caught and answered by searching the lesson text itself.
CompletionFailFallback(r) ==
    /\ pc[r] = "awaitGpt"
    /\ gptReply' = [gptReply EXCEPT ![r] = GptErrorReply]
    /\ terms' = [terms EXCEPT ![r] = <<JStr(<<TemplateText(form[r])>>)>>]
    /\ searchCalls' = [searchCalls EXCEPT ![r] =
            <<SearchRequest(JStr(<<TemplateText(form[r])>>))>>]
    /\ replies' = [replies EXCEPT ![r] = <<NoReply>>]
    /\ values' = [values EXCEPT ![r] = <<Unset>>]
    /\ allState' = [allState EXCEPT ![r] = "pending"]
    /\ pc' = [pc EXCEPT ![r] = "awaitAll"]
    /\ UNCHANGED <<env, form, posts, order, response>>

\* Line 50: client.post rejects (transport error or non-2xx status); nothing
\* catches it, `action` throws.
CompletionFail(r) ==
    /\ pc[r] = "awaitGpt"
    /\ gptReply' = [gptReply EXCEPT ![r] = GptErrorReply]
    /\ response' = [response EXCEPT ![r] = Thrown("completion request failed", "completion", 0)]
    /\ pc' = [pc EXCEPT ![r] = "done"]
    /\ UNCHANGED <<env, form, posts, terms, searchCalls, replies, values,
                   allState, order>>

\* Lines 50 to 95: the completion call answers with data d. The text is parsed
\* and checked; an array is mapped to its search calls, all sent at once, and
\* `action` awaits Promise.all. Promise.all of no promise is fulfilled at once,
\* and `action` answers in the same run (lines 95 to 97).
CompletionRespond(r, d) ==
    /\ pc[r] = "awaitGpt"
    /\ gptReply' = [gptReply EXCEPT ![r] = GptDataReply(d)]
    /\ LET g == Generated(d)
           calls == IssueSearches(g.terms)
           slots == [i \in 1..Len(g.terms) |-> Unset]
       IN  IF g.res = "TypeError"
           THEN /\ response' = [response EXCEPT ![r] =
                        Thrown("Cannot read properties of undefined", "choices", 0)]
                /\ pc' = [pc EXCEPT ![r] = "done"]
                /\ UNCHANGED <<terms, searchCalls, replies, values, allState>>
           ELSE IF g.res = "invalid"
           THEN /\ response' = [response EXCEPT ![r] = InvalidResponse]
                /\ pc' = [pc EXCEPT ![r] = "done"]
                /\ UNCHANGED <<terms, searchCalls, replies, values, allState>>
           ELSE /\ terms' = [terms EXCEPT ![r] = g.terms]
                /\ searchCalls' = [searchCalls EXCEPT ![r] = calls]
                /\ replies' = [replies EXCEPT ![r] = [i \in 1..Len(calls) |-> NoReply]]
                /\ values' = [values EXCEPT ![r] = slots]
                /\ IF AllFulfilled(slots)
                   THEN /\ allState' = [allState EXCEPT ![r] = "fulfilled"]
                        /\ response' = [response EXCEPT ![r] = Aggregated(g.terms, Flat(slots))]
                        /\ pc' = [pc EXCEPT ![r] = "done"]
                   ELSE /\ allState' = [allState EXCEPT ![r] = "pending"]
                        /\ response' = response
                        /\ pc' = [pc EXCEPT ![r] = "awaitAll"]
    /\ UNCHANGED <<env, form, posts, order>>

\* Lines 76 to 97: search call i answers with data d. Its callback maps the
\* items (a TypeError when the data has no items), which settles promise i;
\* Promise.all stores the value, and is fulfilled by the last one or rejected
\* by the first rejection; `action` then answers or throws. A call that
\* answers after Promise.all was rejected changes nothing `action` sees.
SearchRespond(r, i, d) ==
    /\ i \in 1..Len(replies[r])
    /\ replies[r][i].kind = "none"
    /\ replies' = [replies EXCEPT ![r][i] = DataReply(d)]
    /\ order' = [order EXCEPT ![r] = Append(@, i)]
    /\ IF d.hasItems
       THEN LET vals == StoreValue(values[r], i, MapItems(d.items))
            IN  /\ values' = [values EXCEPT ![r] = vals]
                /\ IF allState[r] = "pending" /\ AllFulfilled(vals)
                   THEN /\ allState' = [allState EXCEPT ![r] = "fulfilled"]
                        /\ response' = [response EXCEPT ![r] = Aggregated(terms[r], Flat(vals))]
                        /\ pc' = [pc EXCEPT ![r] = "done"]
                   ELSE UNCHANGED <<allState, response, pc>>
       ELSE /\ values' = values
            /\ IF allState[r] = "pending"
               THEN /\ allState' = [allState EXCEPT ![r] = "rejected"]
                    /\ response' = [response EXCEPT ![r] =
                            Thrown("Cannot read properties of undefined", "items", i)]
                    /\ pc' = [pc EXCEPT ![r] = "done"]
               ELSE UNCHANGED <<allState, response, pc>>
    /\ UNCHANGED <<env, form, posts, gptReply, terms, searchCalls>>

\* A failed search call sent once more before the failure counts.
SearchFailRetry(r, i) ==
    /\ i \in 1..Len(replies[r])
    /\ replies[r][i].kind = "none"
    /\ IF Len(searchCalls[r]) = Len(terms[r])
       THEN /\ searchCalls' = [searchCalls EXCEPT ![r] = Append(@, searchCalls[r][i])]
            /\ UNCHANGED <<replies, order, allState, response, pc>>
       ELSE /\ replies' = [replies EXCEPT ![r][i] = ErrorReply]
            /\ order' = [order EXCEPT ![r] = Append(@, i)]
            /\ searchCalls' = searchCalls
            /\ IF allState[r] = "pending"
               THEN /\ allState' = [allState EXCEPT ![r] = "rejected"]
                    /\ response' = [response EXCEPT ![r] =
                            Thrown("search request failed", "search", i)]
                    /\ pc' = [pc EXCEPT ![r] = "done"]
               ELSE UNCHANGED <<allState, response, pc>>
    /\ UNCHANGED <<env, form, posts, gptReply, terms, values>>

\* A join that collects every outcome before it decides (Promise.allSettled,
\* then throw if any was rejected): a failure is held back while a call is out.
SearchFailCollect(r, i) ==
    /\ i \in 1..Len(replies[r])
    /\ replies[r][i].kind = "none"
    /\ replies' = [replies EXCEPT ![r][i] = ErrorReply]
    /\ order' = [order EXCEPT ![r] = Append(@, i)]
    /\ IF allState[r] = "pending"
          /\ \A k \in 1..Len(replies[r]) : k = i \/ replies[r][k].kind # "none"
       THEN /\ allState' = [allState EXCEPT ![r] = "rejected"]
            /\ response' = [response EXCEPT ![r] = Thrown("search request failed", "search", i)]
            /\ pc' = [pc EXCEPT ![r] = "done"]
       ELSE UNCHANGED <<allState, response, pc>>
    /\ UNCHANGED <<env, form, posts, gptReply, terms, searchCalls, values>>

\* One list of pending joins for the whole module: a failed search call
\* rejects the join of every request that is waiting.
SearchFailShared(r, i) ==
    /\ i \in 1..Len(replies[r])
    /\ replies[r][i].kind = "none"
    /\ replies' = [replies EXCEPT ![r][i] = ErrorReply]
    /\ order' = [order EXCEPT ![r] = Append(@, i)]
    /\ allState' = [o \in Reqs |-> IF allState[o] = "pending" THEN "rejected" ELSE allState[o]]
    /\ response' = [o \in Reqs |->
            IF allState[o] = "pending" THEN Thrown("search request failed", "search", i)
            ELSE response[o]]
    /\ pc' = [o \in Reqs |-> IF allState[o] = "pending" THEN "done" ELSE pc[o]]
    /\ UNCHANGED <<env, form, posts, gptReply, terms, searchCalls, values>>

\* A failed search call that aborts the calls still out (an AbortController
\* shared by the fan-out): they end as failures in the same run.
SearchFailCancel(r, i) ==
    /\ i \in 1..Len(replies[r])
    /\ replies[r][i].kind = "none"
    /\ replies' = [replies EXCEPT ![r] =
            [k \in 1..Len(replies[r]) |->
                IF replies[r][k].kind = "none" THEN ErrorReply ELSE replies[r][k]]]
    /\ order' = [order EXCEPT ![r] = Append(@, i)]
    /\ IF allState[r] = "pending"
       THEN /\ allState' = [allState EXCEPT ![r] = "rejected"]
            /\ response' = [response EXCEPT ![r] = Thrown("search request failed", "search", i)]
            /\ pc' = [pc EXCEPT ![r] = "done"]
       ELSE UNCHANGED <<allState, response, pc>>
    /\ UNCHANGED <<env, form, posts, gptReply, terms, searchCalls, values>>

\* A join that reports by phrase order (the promises awaited one by one in a
\* loop): the failure of an earlier phrase takes the place of a later
\* phrase's failure that came first.
SearchFailByPhrase(r, i) ==
    /\ i \in 1..Len(replies[r])
    /\ replies[r][i].kind = "none"
    /\ replies' = [replies EXCEPT ![r][i] = ErrorReply]
    /\ order' = [order EXCEPT ![r] = Append(@, i)]
    /\ IF allState[r] = "pending" \/ (allState[r] = "rejected" /\ i < response[r].cause.idx)
       THEN /\ allState' = [allState EXCEPT ![r] = "rejected"]
            /\ response' = [response EXCEPT ![r] = Thrown("search request failed", "search", i)]
            /\ pc' = [pc EXCEPT ![r] = "done"]
       ELSE UNCHANGED <<allState, response, pc>>
    /\ UNCHANGED <<env, form, posts, gptReply, terms, searchCalls, values>>

\* A failed search call taken as a search without results (a catch returning []).
SearchFailAsEmpty(r, i) ==
    /\ i \in 1..Len(replies[r])
    /\ replies[r][i].kind = "none"
    /\ replies' = [replies EXCEPT ![r][i] = ErrorReply]
    /\ order' = [order EXCEPT ![r] = Append(@, i)]
    /\ LET vals == StoreValue(values[r], i, <<>>)
       IN  /\ values' = [values EXCEPT ![r] = vals]
           /\ IF allState[r] = "pending" /\ AllFulfilled(vals)
              THEN /\ allState' = [allState EXCEPT ![r] = "fulfilled"]
                   /\ response' = [response EXCEPT ![r] = Aggregated(terms[r], Flat(vals))]
                   /\ pc' = [pc EXCEPT ![r] = "done"]
              ELSE UNCHANGED <<allState, response, pc>>
    /\ UNCHANGED <<env, form, posts, gptReply, terms, searchCalls>>

\* Line 76: the axios.get of search call i rejects (transport error or
\* non-2xx status). Promise i is rejected, which rejects Promise.all if it is
\* still pending, and `action` throws that error.
SearchFail(r, i) ==
    /\ i \in 1..Len(replies[r])
    /\ replies[r][i].kind = "none"
    /\ replies' = [replies EXCEPT ![r][i] = ErrorReply]
    /\ order' = [order EXCEPT ![r] = Append(@, i)]
    /\ IF allState[r] = "pending"
       THEN /\ allState' = [allState EXCEPT ![r] = "rejected"]
            /\ response' = [response EXCEPT ![r] = Thrown("search request failed", "search", i)]
            /\ pc' = [pc EXCEPT ![r] = "done"]
       ELSE UNCHANGED <<allState, response, pc>>
    /\ UNCHANGED <<env, form, posts, gptReply, terms, searchCalls, values>>

\* The positions a search call may have: those of the longest array the
\* completion service may write.
CallIds == 1..(CHOOSE n \in {Len(v.a) : v \in ArrayValues} :
                  \A v \in ArrayValues : Len(v.a) <= n)

\* The steps of request r, with the lesson texts qs, the completion data gs
\* and the search data ds the outside may send.
StepOn(r, fs, gs, ds) ==
    \/ \E f \in fs : Submit(r, f)
    \/ Begin(r)
    \/ CompletionFail(r)
    \/ \E d \in gs : CompletionRespond(r, d)
    \/ \E i \in CallIds, d \in ds : SearchRespond(r, i, d)
    \/ \E i \in CallIds : SearchFail(r, i)

\* The steps of request r.
Step(r) == StepOn(r, Forms, GptData, SearchData)

Next == \E r \in Solo : Step(r)

Spec == Init /\ [][Next]_vars

\* Two requests at once, their steps interleaved in every way, each with a
\* lesson text, a completion answer (three phrases, or prose) or failure, and
\* per search call a failure or one of two item lists.
\* The inputs of the specification with fairness: a body that cannot be
\* read and a lesson text; completion data for every way lines 59 to 71 can
\* go (no choices field, a choice without text, a text that is not JSON, JSON
\* that is no array, the empty array, three phrases); every search data.
LiveForms == {Unreadable, TextField("sistema solar")}

LiveGptData ==
    { [hasChoices |-> FALSE, choices |-> <<>>],
      [hasChoices |-> TRUE, choices |-> <<NoTextChoice>>],
      [hasChoices |-> TRUE, choices |-> <<Choice(<<"n", "o", "t", " ", "j", "s", "o", "n">>)>>],
      [hasChoices |-> TRUE, choices |-> <<Choice(<<"{", "}">>)>>],
      [hasChoices |-> TRUE, choices |-> <<Choice(<<"[", "]">>)>>],
      [hasChoices |-> TRUE, choices |-> <<Choice(ThreeTerms)>>] }

LiveNext == \E r \in Solo : StepOn(r, LiveForms, LiveGptData, SearchData)

\* Every outbound call completes, with a response or with an error: the
\* completion call, and each search call. The handler itself runs on once the
\* form data is read. Nothing makes a lesson text arrive.
CompletionCompletes(r) == CompletionFail(r) \/ \E d \in LiveGptData : CompletionRespond(r, d)

SearchCompletes(r, i) == SearchFail(r, i) \/ \E d \in SearchData : SearchRespond(r, i, d)

Fairness ==
    \A r \in Solo :
        /\ WF_vars(Begin(r))
        /\ WF_vars(CompletionCompletes(r))
        /\ \A i \in CallIds : WF_vars(SearchCompletes(r, i))

LiveSpec == Init /\ [][LiveNext]_vars /\ Fairness

PairForms == {TextField(q) : q \in Queries}
PairGptData ==
    { [hasChoices |-> TRUE, choices |-> <<Choice(ThreeTerms)>>],
      [hasChoices |-> TRUE, choices |-> <<Choice(<<"n", "o", "t", " ", "j", "s", "o", "n">>)>>] }
PairSearchData ==
    { [hasItems |-> FALSE, items |-> <<>>],
      [hasItems |-> TRUE, items |-> <<ItemA>>],
      [hasItems |-> TRUE, items |-> <<ItemB, ItemA>>] }

NextPair == \E r \in Reqs : StepOn(r, PairForms, PairGptData, PairSearchData)

SpecPair == Init /\ [][NextPair]_vars

\* ---------------------------------------------------- what the claims use

\* The completion call of r answered with data whose first choice has a text.
HasText(r) ==
    /\ gptReply[r].kind = "data"
    /\ gptReply[r].hasChoices
    /\ gptReply[r].choices # <<>>
    /\ gptReply[r].choices[1].hasText

FirstText(r) == gptReply[r].choices[1].text

\* The completion output of r is a text of the JSON value v.
Wrote(r, v) == HasText(r) /\ <<FirstText(r), v>> \in Denotes

NonEmptyString(v) == v.t = "str" /\ v.s # <<>>

\* The records of an item list, each item cut to its three fields.
Records(items) ==
    [k \in 1..Len(items) |->
        [link |-> items[k].link, displayLink |-> items[k].displayLink,
         title |-> items[k].title]]

\* Search call i of r came back with an item list.
Listed(r, i) == replies[r][i].kind = "data" /\ replies[r][i].hasItems

\* Search call i of r failed: the request was rejected.
Failed(r, i) == replies[r][i].kind = "error"

\* Search call i of r came back without an items field.
ItemLess(r, i) == replies[r][i].kind = "data" /\ ~replies[r][i].hasItems

Calls(r) == 1..Len(replies[r])

\* ------------------------------------------------------------------ claims

\* C1: when the completion output is a JSON array of 3 non-empty strings and
\* the 3 search calls all came back with their item lists, the response is
\* the status-200 response whose searchTerms are the 3 phrases in generated
\* order and whose results are the records of phrase 1's items, then phrase
\* 2's, then phrase 3's, whatever the order in which the calls came back.
C1_OrderedAggregation ==
    \A r \in Reqs : \A v \in ArrayValues :
        ( /\ Wrote(r, v)
          /\ Len(v.a) = 3
          /\ \A i \in 1..3 : NonEmptyString(v.a[i])
          /\ Len(replies[r]) = 3
          /\ \A i \in 1..3 : Listed(r, i) )
        => response[r] =
             Aggregated(v.a, Records(replies[r][1].items)
                             \o Records(replies[r][2].items)
                             \o Records(replies[r][3].items))

\* C1 witness: a success whose calls came back in the order 3, 2, 1 with
\* different lists for phrases 1 and 3.
C1_Witness ==
    /\ Wrote(1, JArr(<<JStr(<<"a">>), JStr(<<"b">>), JStr(<<"a">>)>>))
    /\ order[1] = <<3, 2, 1>>
    /\ replies[1][1].items = <<ItemA>>
    /\ replies[1][2].items = <<>>
    /\ replies[1][3].items = <<ItemB, ItemA>>
    /\ \A i \in 1..3 : Listed(1, i)
    /\ response[1].kind = "json"
    /\ Len(response[1].results) = 3

\* C2: once a search call of a request has failed, the request has failed:
\* its outcome is an exception thrown out of the search fan-out, never a
\* response carrying searchTerms or results; and when every other call
\* either failed or came back with an item list, the exception is the error
\* of a failed search call.
C2_AllOrNothing ==
    \A r \in Reqs :
        (\E i \in Calls(r) : Failed(r, i))
        => /\ response[r].kind = "throw"
           /\ response[r].cause.src \in {"search", "items"}
           /\ response[r].searchTerms = <<>>
           /\ response[r].results = <<>>
           /\ (\A i \in Calls(r) : ~ItemLess(r, i))
              => /\ response[r].cause.src = "search"
                 /\ response[r].cause.idx \in Calls(r)
                 /\ Failed(r, response[r].cause.idx)

\* C2 witness: phrase 2's call failed, phrases 1 and 3 came back with items.
C2_Witness ==
    /\ Len(replies[1]) = 3
    /\ Failed(1, 2)
    /\ Listed(1, 1) /\ replies[1][1].items = <<ItemA>>
    /\ Listed(1, 3) /\ replies[1][3].items = <<ItemB, ItemA>>
    /\ response[1].kind = "throw"

\* C3: when the completion text is not JSON, the response is the status-400
\* error response and the request has made no search call.
C3_UnparseableIs400 ==
    \A r \in Reqs :
        (HasText(r) /\ FirstText(r) \in MalformedTexts)
        => /\ response[r] = InvalidResponse
           /\ response[r].status = 400
           /\ searchCalls[r] = <<>>

\* C3 witness: the completion text was "not json" and the request is done.
C3_Witness ==
    /\ HasText(1)
    /\ FirstText(1) = <<"n", "o", "t", " ", "j", "s", "o", "n">>
    /\ pc[1] = "done"
    /\ response[1].status = 400

\* C4: when the completion text is JSON of a value that is no array (an
\* object, a number, a string, a boolean, null), the response is the
\* status-400 error response and the request has made no search call.
C4_NonArrayIs400 ==
    \A r \in Reqs : \A v \in NonArrayValues :
        Wrote(r, v)
        => /\ response[r] = InvalidResponse
           /\ response[r].status = 400
           /\ searchCalls[r] = <<>>

\* C4 witness: the completion text was {"a":1} and the request is done.
C4_Witness ==
    /\ Wrote(1, JObj(<<JStr(<<"a">>), JNum(<<"1">>)>>))
    /\ pc[1] = "done"
    /\ response[1].kind = "json"

\* C5: a request has made search calls only after its completion call came
\* back with the text of a JSON array; a request whose completion call
\* failed, or that answered the status-400 error, has made none.
C5_GenerationShortCircuits ==
    \A r \in Reqs :
        /\ pc[r] \in {"idle", "formData", "awaitGpt"} => searchCalls[r] = <<>>
        /\ searchCalls[r] # <<>> => \E v \in ArrayValues : Wrote(r, v)
        /\ gptReply[r].kind = "error"
           => /\ searchCalls[r] = <<>>
              /\ response[r].kind = "throw"
              /\ response[r].cause.src = "completion"
        /\ response[r] = InvalidResponse => searchCalls[r] = <<>>

\* C5 witness: the completion call failed and the request ended.
C5_Witness ==
    /\ gptReply[1].kind = "error"
    /\ Len(posts[1]) = 1
    /\ pc[1] = "done"
    /\ searchCalls[1] = <<>>

\* C6: the search calls are a fan-out: whenever a request waits at the join,
\* and whenever one of its search calls has come back, a search call has been
\* sent for every element of the array, so that no call waits for another.
C6_FanOut ==
    \A r \in Reqs :
        (pc[r] = "awaitAll" \/ order[r] # <<>>)
        => /\ Len(searchCalls[r]) = Len(terms[r])
           /\ Len(replies[r]) = Len(terms[r])
           /\ Cardinality({i \in Calls(r) : replies[r][i].kind = "none"})
                = Len(terms[r]) - Len(order[r])

\* C6 witness: three search calls in flight at once, none back yet.
C6_Witness ==
    /\ pc[1] = "awaitAll"
    /\ Len(searchCalls[1]) = 3
    /\ \A i \in 1..3 : replies[1][i].kind = "none"
    /\ order[1] = <<>>

\* The array of r is what the prompt asked for: 3 non-empty strings.
ThreePhrases(r) ==
    /\ Len(terms[r]) = 3
    /\ \A i \in 1..3 : NonEmptyString(terms[r][i])

\* C7 (as claimed): for a request with 3 phrases, a search call that came
\* back with no item, its items list empty or absent, has produced the empty
\* sequence for its phrase, and the request has not failed on that call.
C7_ZeroItemsIsEmpty ==
    \A r \in Reqs : \A i \in Calls(r) :
        (ThreePhrases(r) /\ replies[r][i].kind = "data" /\ replies[r][i].items = <<>>)
        => /\ values[r][i] = [set |-> TRUE, v |-> <<>>]
           /\ ~(response[r].kind = "throw" /\ response[r].cause.idx = i)

\* C8 (as claimed): whenever a request has made a search call or answered
\* with success, its phrase set has exactly 3 elements, each a non-empty
\* string.
C8_ThreeNonEmptyStrings ==
    \A r \in Reqs :
        (searchCalls[r] # <<>> \/ (response[r].kind = "json" /\ response[r].status = 200))
        => /\ Len(terms[r]) = 3
           /\ \A i \in 1..Len(terms[r]) : NonEmptyString(terms[r][i])
           /\ response[r].kind = "json" => Len(response[r].searchTerms) = 3

\* C9: a request makes at most one completion call, exactly one once it got
\* past the environment checks, and from the fan-out on exactly one search
\* call per element of the array, the i-th with the i-th element as its
\* form, however its calls end; before the fan-out it has made none.
C9_NoRetries ==
    \A r \in Reqs :
        /\ Len(posts[r]) <= 1
        /\ gptReply[r].kind # "none" => Len(posts[r]) = 1
        /\ allState[r] = "none" => searchCalls[r] = <<>>
        /\ allState[r] # "none"
           => /\ Len(searchCalls[r]) = Len(terms[r])
              /\ \A i \in 1..Len(terms[r]) : searchCalls[r][i].q = terms[r][i]

\* C9 witness: three phrases, the second call failed, every call is back.
C9_Witness ==
    /\ Len(terms[1]) = 3
    /\ Len(order[1]) = 3
    /\ Failed(1, 2)
    /\ Len(searchCalls[1]) = 3
    /\ Len(posts[1]) = 1

\* Search call i of r rejected its promise: the request failed, or the
\* answer had no items to map.
Rejected(r, i) == Failed(r, i) \/ ItemLess(r, i)

\* The search call of r that was the first, in time, to reject.
FirstRejected(r) ==
    LET ks == {k \in 1..Len(order[r]) : Rejected(r, order[r][k])}
    IN  order[r][CHOOSE k \in ks : \A m \in ks : k <= m]

\* C10 (as claimed): the outcome of a request with 3 phrases, each of whose
\* search calls fails or comes back with an item list, is decided only when
\* every one of the three has come back.
C10_DecidedAfterAll ==
    \A r \in Reqs :
        ( /\ ThreePhrases(r)
          /\ \A i \in Calls(r) : ~ItemLess(r, i)
          /\ response[r].kind # "none" )
        => \A i \in Calls(r) : replies[r][i].kind # "none"

\* C10 (amended): a success is decided only when every search call has come
\* back with an item list; a failure is decided at the first search call
\* that rejects, by that call, and is not held back for the calls still out.
C10_JoinPolicy ==
    \A r \in Reqs :
        /\ (response[r].kind = "json" /\ response[r].status = 200)
           => \A i \in Calls(r) : Listed(r, i)
        /\ (\E i \in Calls(r) : Rejected(r, i))
           => /\ response[r].kind = "throw"
              /\ pc[r] = "done"
              /\ response[r].cause.idx = FirstRejected(r)
        /\ (allState[r] = "pending") = (pc[r] = "awaitAll")

\* C10 witness: the request has thrown the error of call 2 while calls 1 and
\* 3 are still out.
C10_Witness ==
    /\ Len(replies[1]) = 3
    /\ order[1] = <<2>>
    /\ Failed(1, 2)
    /\ response[1].kind = "throw"
    /\ response[1].cause.idx = 2
    /\ replies[1][1].kind = "none"
    /\ replies[1][3].kind = "none"

\* C11 (as claimed): when one of the three environment variables is not set,
\* a request makes no completion call and no search call, and once `action`
\* has ended it has thrown the error of the first variable found missing.
C11_MissingCredentialFailsFirst ==
    \A r \in Reqs :
        (\E n \in EnvNames : ~env[n])
        => /\ posts[r] = <<>>
           /\ searchCalls[r] = <<>>
           /\ gptReply[r].kind = "none"
           /\ pc[r] \in {"idle", "formData", "done"}
           /\ pc[r] = "done"
              => /\ response[r].kind = "throw"
                 /\ response[r].cause.src = "invariant"
                 /\ response[r].error \in {n \o " must be set" : n \in {m \in EnvNames : ~env[m]}}

\* C12 (as claimed): when the completion call fails, `action` returns an
\* error response, a message with an HTTP status of the 400 or 500 class, as
\* it does for an invalid completion text.
C12_GenerationErrorReturned ==
    \A r \in Reqs :
        gptReply[r].kind = "error"
        => /\ response[r].kind = "json"
           /\ response[r].status >= 400
           /\ response[r].error # ""

\* The number of items of the search answers reps.
RECURSIVE TotalItems(_)
TotalItems(reps) ==
    IF reps = <<>> THEN 0 ELSE Len(Head(reps).items) + TotalItems(Tail(reps))

\* C16: the value of a search call that came back with an item list has one
\* record per item, the k-th with the link, displayLink and title of the
\* k-th item; and the results of a success are as many as the items of all
\* its search calls together, the k-th item of call i at place k after the
\* items of the calls before i, also when calls returned the same link.
C16_MappingKeepsEveryItem ==
    \A r \in Reqs :
        /\ \A i \in Calls(r) :
              Listed(r, i)
              => /\ values[r][i].set
                 /\ Len(values[r][i].v) = Len(replies[r][i].items)
                 /\ \A k \in 1..Len(replies[r][i].items) :
                       /\ values[r][i].v[k].link = replies[r][i].items[k].link
                       /\ values[r][i].v[k].displayLink = replies[r][i].items[k].displayLink
                       /\ values[r][i].v[k].title = replies[r][i].items[k].title
        /\ (response[r].kind = "json" /\ response[r].status = 200)
           => /\ Len(response[r].results) = TotalItems(replies[r])
              /\ \A i \in Calls(r) : \A k \in 1..Len(replies[r][i].items) :
                    response[r].results[TotalItems(SubSeq(replies[r], 1, i - 1)) + k].link
                        = replies[r][i].items[k].link

\* C16 witness: a success in which phrases 1 and 2 both returned item A.
C16_Witness ==
    /\ Len(replies[1]) = 3
    /\ replies[1][1].items = <<ItemA>>
    /\ replies[1][2].items = <<ItemB, ItemA>>
    /\ replies[1][3].items = <<ItemA>>
    /\ response[1].kind = "json"
    /\ Len(response[1].results) = 4

\* C17: when the completion text is a JSON array, of whatever length and
\* elements, the request has made one search call per element, the i-th with
\* the i-th element as its form, a success carries the array unchanged as
\* searchTerms, and for the empty array the request has answered at once
\* with success, no search terms and no results.
C17_CallsFollowTheArray ==
    \A r \in Reqs : \A v \in ArrayValues :
        Wrote(r, v)
        => /\ Len(searchCalls[r]) = Len(v.a)
           /\ \A i \in 1..Len(v.a) : searchCalls[r][i].q = v.a[i]
           /\ response[r].kind = "json"
              => response[r].status = 200 /\ response[r].searchTerms = v.a
           /\ v.a = <<>> => response[r] = Aggregated(<<>>, <<>>)

\* C17 witness: the array had four phrases, four calls were made and the
\* request succeeded with the four phrases as searchTerms.
C17_Witness ==
    /\ HasText(1)
    /\ Len(searchCalls[1]) = 4
    /\ response[1].kind = "json"
    /\ Len(response[1].searchTerms) = 4

\* C18: when the completion call answers with an empty list of choices, the
\* response is the status-400 error response and no search call was made.
C18_NoChoiceIs400 ==
    \A r \in Reqs :
        (gptReply[r].kind = "data" /\ gptReply[r].hasChoices /\ gptReply[r].choices = <<>>)
        => /\ response[r] = InvalidResponse
           /\ response[r].status = 400
           /\ searchCalls[r] = <<>>

\* C18 witness: a completion answer without choices, and the request done.
C18_Witness ==
    /\ gptReply[1].kind = "data"
    /\ gptReply[1].hasChoices
    /\ gptReply[1].choices = <<>>
    /\ pc[1] = "done"
    /\ response[1].kind = "json"

\* What a caller sees of the outcome of r: the response, and of a thrown
\* error the step it came from and the form of the search call it is of.
Surfaced(r) ==
    [kind |-> response[r].kind, status |-> response[r].status,
     error |-> response[r].error, searchTerms |-> response[r].searchTerms,
     results |-> response[r].results, src |-> response[r].cause.src,
     q |-> IF response[r].cause.idx \in 1..Len(searchCalls[r])
           THEN searchCalls[r][response[r].cause.idx].q ELSE JNull]

\* Requests 1 and 2 had the same lesson text and the same upstream behaviour.
SameUpstream ==
    /\ form[1] = form[2]
    /\ gptReply[1] = gptReply[2]
    /\ replies[1] = replies[2]

\* Request r has ended and every call it made has come back.
Settled(r) == pc[r] = "done" /\ \A i \in Calls(r) : replies[r][i].kind # "none"

\* C13 (as claimed): two settled requests with the same lesson text and the
\* same upstream behaviour have the same outcome.
C13_SameInputsSameOutcome ==
    (Settled(1) /\ Settled(2) /\ SameUpstream) => Surfaced(1) = Surfaced(2)

\* C13 (amended): two settled requests with the same lesson text and the
\* same upstream behaviour both return the same response or both throw; what
\* they throw is the same too when at most one search call rejected.
C13_SameInputsSameResponse ==
    (Settled(1) /\ Settled(2) /\ SameUpstream)
    => /\ response[1].kind = response[2].kind
       /\ response[1].status = response[2].status
       /\ response[1].searchTerms = response[2].searchTerms
       /\ response[1].results = response[2].results
       /\ Cardinality({i \in Calls(1) : Rejected(1, i)}) <= 1
          => response[1] = response[2]

\* C13 witness: the same inputs, the calls of request 1 back in the order
\* 1, 2, 3 and those of request 2 in the order 3, 2, 1, the same success.
C13_Witness ==
    /\ SameUpstream
    /\ order[1] = <<1, 2, 3>>
    /\ order[2] = <<3, 2, 1>>
    /\ replies[1][1].items = <<ItemA>>
    /\ replies[1][3].items = <<ItemB, ItemA>>
    /\ response[1].kind = "json"
    /\ response[1].status = 200
    /\ response[2] = response[1]

\* The records of the search answers reps, in the order of reps.
RECURSIVE AllRecords(_)
AllRecords(reps) ==
    IF reps = <<>> THEN <<>> ELSE Records(Head(reps).items) \o AllRecords(Tail(reps))

\* The outcome of request r as its own lesson text, environment and upstream
\* answers fix it, whatever any other request did.
OwnOutcome(r) ==
    IF pc[r] \in {"idle", "formData"} THEN NoResponse
    ELSE IF form[r] = Unreadable
    THEN Thrown("Could not parse content as FormData.", "formData", 0)
    ELSE IF \E n \in EnvNames : ~env[n]
    THEN Thrown(IF ~env["OPENAI_API_KEY"] THEN "OPENAI_API_KEY must be set"
                ELSE IF ~env["CUSTOM_SEARCH_KEY"] THEN "CUSTOM_SEARCH_KEY must be set"
                ELSE "CUSTOM_SEARCH_CX must be set", "invariant", 0)
    ELSE IF gptReply[r].kind = "none" THEN NoResponse
    ELSE IF gptReply[r].kind = "error"
    THEN Thrown("completion request failed", "completion", 0)
    ELSE IF ~gptReply[r].hasChoices
    THEN Thrown("Cannot read properties of undefined", "choices", 0)
    ELSE IF ~\E v \in ArrayValues : Wrote(r, v) THEN InvalidResponse
    ELSE LET v == CHOOSE w \in ArrayValues : Wrote(r, w)
         IN  IF \E i \in 1..Len(v.a) : Rejected(r, i)
             THEN IF Failed(r, FirstRejected(r))
                  THEN Thrown("search request failed", "search", FirstRejected(r))
                  ELSE Thrown("Cannot read properties of undefined", "items",
                              FirstRejected(r))
             ELSE IF \A i \in 1..Len(v.a) : Listed(r, i)
             THEN Aggregated(v.a, AllRecords(replies[r]))
             ELSE NoResponse

\* C14: whatever the interleaving of two requests, the outcome of each is
\* the one its own lesson text and its own upstream answers fix, and it has
\* ended exactly when it has an outcome.
C14_RequestsIndependent ==
    \A r \in Reqs :
        /\ response[r] = OwnOutcome(r)
        /\ (pc[r] = "done") = (response[r].kind # "none")

\* C14 witness: request 1 threw on a failed search call and request 2, with
\* another lesson text, succeeded with results after that.
C14_Witness ==
    /\ response[1].kind = "throw"
    /\ response[1].cause.src = "search"
    /\ form[1] # form[2]
    /\ response[2].kind = "json"
    /\ response[2].status = 200
    /\ Len(response[2].results) = 4

\* The search calls of an answer list that are still out.
StillOut(reps) == {i \in 1..Len(reps) : reps[i].kind = "none"}

\* C15: a step ends at most one search call of a request, so a failed call
\* leaves the others out; what a call came back with stays; an outcome once
\* decided is not changed by the calls that come back after it; and a thrown
\* outcome carries no results.
C15_NoCancelDiscarded ==
    [][\A r \in Reqs :
          /\ Cardinality(StillOut(replies[r])) - Cardinality(StillOut(replies'[r])) <= 1
          /\ \A i \in 1..Len(replies[r]) :
                replies[r][i].kind # "none" => replies'[r][i] = replies[r][i]
          /\ response[r].kind # "none" => response'[r] = response[r]
          /\ response'[r].kind = "throw"
             => response'[r].results = <<>> /\ response'[r].searchTerms = <<>>]_vars

\* C15 witness: call 2 failed first, then calls 3 and 1 came back with
\* items, and the outcome is still the error of call 2, without results.
C15_Witness ==
    /\ order[1] = <<2, 3, 1>>
    /\ Failed(1, 2)
    /\ replies[1][1].items = <<ItemA>>
    /\ replies[1][3].items = <<ItemB, ItemA>>
    /\ response[1] = Thrown("search request failed", "search", 2)

\* C20: when two or more search calls of a request have rejected, the
\* request has thrown the error of the one that rejected first in time,
\* whatever its place in phrase order.
C20_FirstFailureInTime ==
    \A r \in Reqs :
        Cardinality({i \in Calls(r) : Rejected(r, i)}) >= 2
        => response[r] =
             IF Failed(r, FirstRejected(r))
             THEN Thrown("search request failed", "search", FirstRejected(r))
             ELSE Thrown("Cannot read properties of undefined", "items", FirstRejected(r))

\* C20 witness: call 3 failed, then call 1 failed; the error thrown is that
\* of call 3.
C20_Witness ==
    /\ Len(order[1]) >= 2
    /\ order[1][1] = 3
    /\ order[1][2] = 1
    /\ Failed(1, 3)
    /\ Failed(1, 1)
    /\ response[1].cause.idx = 3

\* Request r is waiting on an outbound call that has not completed.
CallOut(r) ==
    \/ pc[r] = "awaitGpt" /\ Len(posts[r]) = 1 /\ gptReply[r].kind = "none"
    \/ pc[r] = "awaitAll" /\ \E i \in Calls(r) : replies[r][i].kind = "none"

\* C19: when every outbound call completes, a handler that has started ends,
\* having returned a response or thrown; until then it is either about to run
\* or waiting on a call that is out.
C19_Terminates ==
    \A r \in Solo :
        /\ [](pc[r] \in {"awaitGpt", "awaitAll"} => CallOut(r))
        /\ [](pc[r] = "done" => response[r].kind \in {"json", "throw"})
        /\ (pc[r] = "formData") ~> (pc[r] = "done")

\* C19 witness: a handler that waited on the completion call and on three
\* search calls has ended once the last of them came back.
C19_Witness ==
    /\ pc[1] = "done"
    /\ gptReply[1].kind = "data"
    /\ Len(order[1]) = 3
    /\ Len(replies[1]) = 3
    /\ Listed(1, order[1][3])
    /\ response[1].kind = "json"
    /\ response[1].status = 200

====
